---- MODULE Spec2Model ----
(***************************************************************************)
(* Configuration composition and update engine of aluci-ai-template:       *)
(* the YAML document store (utils/file_utils.py), the composition engine   *)
(* (utils/hydra_utils.py) and the settings facade (configs/app_config.py). *)
(*                                                                         *)
(* Three specifications share the variables:                               *)
(*   SpecFile  one write_file, re-read by read_file, on every input        *)
(*   Spec      the facade and the engine, statement by statement, with     *)
(*             the model constructor that instantiate runs                 *)
(*   SpecFresh the same, in a process that establishes no root of its own  *)
(*   SpecConc  two threads calling the file operations under _lock         *)
(*   SpecConcFair  the same, under a fair scheduler                        *)
(*   SpecSeed  set_seed and draws from the generators it seeds             *)
(*                                                                         *)
(* Strings that the code takes apart are sequences of symbols: a dotted    *)
(* key "a.b" is <<"a", ".", "b">> and a key of a document is the sequence  *)
(* of symbols between two dots (<<"a">>).  A file name is <<stem, suffix>>.*)
(***************************************************************************)
EXTENDS Integers, Sequences, FiniteSets, TLC

VARIABLES
    disk,       \* the file system: path -> file content (or absent)
    calls,      \* the calls of read_file / write_file made so far, with
                \* their arguments, outcome, and the disk before and after
    backup,     \* path_config.config_backup: file name -> file content
    resolver_registered,  \* HydraUtils._resolver_registered
    resolvers,  \* OmegaConf's resolver registry: the names registered, in order
    global_hydra,   \* GlobalHydra.instance().is_initialized()
    settings,   \* AppConfig.settings
    stack,      \* the call stack of the thread that configures the process
    done,       \* the last finished call of the facade, and the last finished
                \* load_config, with what they were given and what they gave
    counts,     \* calls started, _ensure_resolver runs, registrations tried,
                \* assignments to the settings slot
    lock,       \* file_utils._lock: the thread that holds it, or Free
    threads,    \* the threads that call the document store concurrently:
                \* the call each one makes and where it stands in it
    dirs,       \* the directories that exist
    rng,        \* the process-wide generators (random, numpy, torch CPU and
                \* CUDA) and the two cuDNN flags
    drawn       \* the last set_seed call and the values drawn from each
                \* generator since

\* ------------------------------------------------------------------ bounds

\* Entries of one dotted-path update map.
MaxUpdates == 2
\* Calls of AppConfig.load / AppConfig.update in one run.
MaxCalls == 2
\* Values a generator state ranges over.
Period == 3
\* Calls of set_seed in one run.
MaxSeedings == 2
\* Values drawn, over all generators, after one set_seed.
MaxDraws == 2

\* ------------------------------------------------------- values and documents

\* In-memory values (what ruamel.yaml loads and what callers pass):
\*   kind "int"           a number
\*   kind "str"           a string (v numbers the strings the model uses)
\*   kind "object"        an instance a constructor returned, items its fields
\*   kind "map"           a mapping (CommentedMap / dict), items in key order
\*   kind "list"          a plain Python list, dim 1 (flat) or 2 (list of lists)
\*   kind "ndarray"       an array-like value exposing tolist(), dim 1 or 2
\*   kind "CommentedSeq"  a ruamel sequence; flow = inner lists in flow style
\*   kind "none"          None (what an empty file loads to)
\*   kind "instance"      an instance of a class the YAML representer does not
\*                        know (a pathlib.Path, say)
\* On-disk nodes (the text of the file):
\*   kind "scalar", "string", "mapping", "sequence" (flow as written),
\*   "empty"
Node(kind, v, dim, flow, items) ==
    [kind |-> kind, v |-> v, dim |-> dim, flow |-> flow, items |-> items]

IntNode(n) == Node("int", n, 0, FALSE, <<>>)
StrNode(id) == Node("str", id, 0, FALSE, <<>>)
NoneNode == Node("none", 0, 0, FALSE, <<>>)
MapNode(items) == Node("map", 0, 0, FALSE, items)
ListNode(id, dim) == Node("list", id, dim, FALSE, <<>>)
NdArray(id, dim) == Node("ndarray", id, dim, FALSE, <<>>)
Instance(id) == Node("instance", id, 0, FALSE, <<>>)
Entry(k, n) == [k |-> k, n |-> n]

DOT == "."

\* key.split("."): the segments between the dots, in order.
RECURSIVE SplitAcc(_, _, _)
SplitAcc(s, cur, acc) ==
    IF s = <<>> THEN Append(acc, cur)
    ELSE IF Head(s) = DOT THEN SplitAcc(Tail(s), <<>>, Append(acc, cur))
    ELSE SplitAcc(Tail(s), Append(cur, Head(s)), acc)

Split(s) == SplitAcc(s, <<>>, <<>>)

\* Mutant: an assigned key is removed and inserted again, at the end.
SetItemMoved(node, k, value) ==
    [node EXCEPT !.items =
        Append(SelectSeq(node.items, LAMBDA e : e.k # k), Entry(k, value))]

\* Position of key k in a mapping, 0 when it is not a key.
KeyIndex(node, k) ==
    LET idx == {i \in 1..Len(node.items) : node.items[i].k = k}
    IN IF idx = {} THEN 0 ELSE CHOOSE i \in idx : TRUE

HasKey(node, k) == node.kind = "map" /\ KeyIndex(node, k) # 0

\* current_level[k]
GetItem(node, k) == node.items[KeyIndex(node, k)].n

\* current_level[k] = value: an existing key keeps its place, a new key is
\* appended.
SetItem(node, k, value) ==
    IF KeyIndex(node, k) # 0
    THEN [node EXCEPT !.items[KeyIndex(node, k)].n = value]
    ELSE [node EXCEPT !.items = Append(node.items, Entry(k, value))]

\* value.tolist() when the value has it.
ToList(value) ==
    IF value.kind = "ndarray" THEN [value EXCEPT !.kind = "list"] ELSE value

\* A non-empty list of lists is wrapped in a CommentedSeq whose inner
\* sequences are in flow style.
Styled(value) ==
    IF value.kind = "list" /\ value.dim = 2
    THEN [value EXCEPT !.kind = "CommentedSeq", !.flow = TRUE]
    ELSE value

Ok(node) == [err |-> "ok", node |-> node]
Raise(e, node) == [err |-> e, node |-> node]

\* The walk of one entry: descend through keys[:-1], assign keys[-1].
\* Subscripting a mapping without the key raises KeyError; subscripting
\* anything that is not a mapping with a string raises TypeError.
RECURSIVE SetPath(_, _, _)
SetPath(node, keys, value) ==
    IF node.kind # "map" THEN Raise("TypeError", node)
    ELSE IF Len(keys) = 1 THEN Ok(SetItem(node, keys[1], value))
    ELSE IF ~HasKey(node, keys[1]) THEN Raise("KeyError", node)
    ELSE LET r == SetPath(GetItem(node, keys[1]), Tail(keys), value)
         IN IF r.err # "ok" THEN Raise(r.err, node)
            ELSE Ok(SetItem(node, keys[1], r.node))

\* The loop over new_data.items(): entries in insertion order, the first
\* failure leaves the loop with the document as updated so far.
RECURSIVE ApplyUpdates(_, _)
ApplyUpdates(data, new_data) ==
    IF new_data = <<>> THEN Ok(data)
    ELSE LET e == Head(new_data)
             r == SetPath(data, Split(e.key), Styled(ToList(e.value)))
         IN IF r.err # "ok" THEN Raise(r.err, data)
            ELSE ApplyUpdates(r.node, Tail(new_data))

\* yaml.dump represents the document before it writes: a value of a class
\* it has no representer for is refused with RepresenterError.
RECURSIVE Representable(_)
Representable(node) ==
    CASE node.kind = "map" ->
            \A i \in 1..Len(node.items) : Representable(node.items[i].n)
      [] node.kind \in {"instance", "ndarray", "object"} -> FALSE
      [] OTHER -> TRUE

\* yaml.dump: the text of an in-memory document.  Plain lists are written
\* in block style (default_flow_style = False), ruamel sequences as styled.
RECURSIVE Dump(_)
Dump(node) ==
    CASE node.kind = "map" ->
            Node("mapping", 0, 0, FALSE,
                 [i \in 1..Len(node.items) |->
                     Entry(node.items[i].k, Dump(node.items[i].n))])
      [] node.kind = "int" -> Node("scalar", node.v, 0, FALSE, <<>>)
      [] node.kind = "str" -> Node("string", node.v, 0, FALSE, <<>>)
      [] node.kind = "list" -> Node("sequence", node.v, node.dim, FALSE, <<>>)
      [] node.kind = "CommentedSeq" ->
            Node("sequence", node.v, node.dim, node.flow, <<>>)
      [] OTHER -> Node("empty", 0, 0, FALSE, <<>>)

\* yaml.load: the in-memory document of a text.
RECURSIVE Load(_)
Load(text) ==
    CASE text.kind = "mapping" ->
            MapNode([i \in 1..Len(text.items) |->
                        Entry(text.items[i].k, Load(text.items[i].n))])
      [] text.kind = "scalar" -> IntNode(text.v)
      [] text.kind = "string" -> StrNode(text.v)
      [] text.kind = "sequence" ->
            Node("CommentedSeq", text.v, text.dim, text.flow, <<>>)
      [] OTHER -> NoneNode

\* ------------------------------------------------------------ file system

\* A file: absent, or present with its text.
Absent == [exists |-> FALSE, text |-> Node("empty", 0, 0, FALSE, <<>>)]
File(text) == [exists |-> TRUE, text |-> text]
\* A file just opened with mode "w": present and empty.
Truncated == File(Node("empty", 0, 0, FALSE, <<>>))

Dirs == {"configs", "models"}
YamlName == <<"settings", ".yaml">>
UpperName == <<"settings", ".YAML">>
JsonName == <<"settings", ".json">>
ModelName == <<"smol_lm3_config", ".yaml">>
FileNames == {YamlName, UpperName, JsonName, ModelName}
PathOf(dir, name) == [dir |-> dir, name |-> name]
AllPaths == {PathOf(d, n) : d \in Dirs, n \in FileNames}

\* Path(path).suffix: the last dot-part of the name, with its dot.
Suffix(path) == path.name[2]

\* str.removeprefix("."): the suffix without its leading dot, letter case
\* untouched.
RemovePrefixDot(s) ==
    CASE s = ".yaml" -> "yaml"
      [] s = ".YAML" -> "YAML"
      [] s = ".json" -> "json"
      [] OTHER -> s

\* Mutant: every suffix is taken for the supported one.
get_file_extension_any(path) == "yaml"

get_file_extension(path) == RemovePrefixDot(Suffix(path))

\* What a call returns: an error name ("ok" for a normal return), the value
\* returned, the levels logged, and the disk it leaves.
Outcome(err, val, logs, d) == [err |-> err, val |-> val, logs |-> logs, disk |-> d]

\* open(path, "r") + yaml.load
_read_yaml(d, path) ==
    IF ~d[path].exists THEN Outcome("FileNotFoundError", NoneNode, <<>>, d)
    ELSE Outcome("ok", Load(d[path].text), <<>>, d)

read_file(d, path) ==
    IF get_file_extension(path) = "yaml"
    THEN LET r == _read_yaml(d, path)
         IN IF r.err # "ok" THEN r
            ELSE Outcome("ok", r.val, <<"SUCCESS">>, d)
    ELSE Outcome("NotImplementedError", NoneNode, <<"ERROR">>, d)

\* Mutant: the file is opened for writing before the updates are applied,
\* and a failing update leaves what was applied so far in it.
_write_yaml_partial(d, path, new_data) ==
    LET r == read_file(d, path)
    IN IF r.err # "ok" THEN r
       ELSE LET u == ApplyUpdates(r.val, new_data)
            IN Outcome(u.err, NoneNode, r.logs,
                       [d EXCEPT ![path] = File(Dump(u.node))])

\* The whole of _write_yaml as one step (the lock is held throughout):
\* read, apply every update in memory, then open for writing and dump.
\* open(path, "w") empties the file before yaml.dump runs, so a dump that
\* is refused leaves it empty.
_write_yaml(d, path, new_data) ==
    LET r == read_file(d, path)
    IN IF r.err # "ok" THEN r
       ELSE LET u == ApplyUpdates(r.val, new_data)
            IN IF u.err # "ok" THEN Outcome(u.err, NoneNode, r.logs, d)
               ELSE IF ~Representable(u.node)
               THEN Outcome("RepresenterError", NoneNode, r.logs,
                            [d EXCEPT ![path] = Truncated])
               ELSE Outcome("ok", NoneNode, r.logs,
                            [d EXCEPT ![path] = File(Dump(u.node))])

\* Mutant: the call returns without having written.
write_file_skipped(d, path, data) == Outcome("ok", NoneNode, <<"SUCCESS">>, d)

write_file(d, path, data) ==
    IF get_file_extension(path) = "yaml"
    THEN LET w == _write_yaml(d, path, data)
         IN IF w.err # "ok" THEN w
            ELSE Outcome("ok", NoneNode, Append(w.logs, "SUCCESS"), w.disk)
    ELSE Outcome("NotImplementedError", NoneNode, <<"ERROR">>, d)

\* ---------------------------------------------------- inputs of the store

ka == <<"a">>
kb == <<"b">>
kc == <<"c">>
kx == <<"x">>
ky == <<"y">>

\* a: {b: {c: 1}}, x: 2
DocNested ==
    MapNode(<<Entry(ka, MapNode(<<Entry(kb, MapNode(<<Entry(kc, IntNode(1))>>))>>)),
              Entry(kx, IntNode(2))>>)
\* x: 2, a: {c: 1}
DocNoB == MapNode(<<Entry(kx, IntNode(2)), Entry(ka, MapNode(<<Entry(kc, IntNode(1))>>))>>)
\* a: 1, b: 2
DocScalars == MapNode(<<Entry(ka, IntNode(1)), Entry(kb, IntNode(2))>>)
\* a: {b: [[3, 3]]}  (the inner list in flow style)
DocSeq ==
    MapNode(<<Entry(ka, MapNode(<<Entry(kb, Node("CommentedSeq", 3, 2, TRUE, <<>>))>>))>>)

InitDocs == {DocNested, DocNoB, DocScalars, DocSeq}

UpdateKeys ==
    { <<"a">>, <<"x">>, <<"a", DOT, "b">>, <<"x", DOT, "y">>,
      <<"a", DOT, "b", DOT, "c">> }
UpdateValues == { IntNode(5), NdArray(7, 2), ListNode(8, 1), MapNode(<<>>) }

\* The update maps (dicts, so in insertion order and without a repeated
\* key) of at most n entries.
RECURSIVE UpdateMaps(_)
UpdateMaps(n) ==
    IF n = 0 THEN { <<>> }
    ELSE LET shorter == UpdateMaps(n - 1)
         IN shorter \cup
            { Append(m, [key |-> k, value |-> v]) :
                m \in {s \in shorter : Len(s) = n - 1},
                k \in UpdateKeys, v \in UpdateValues }

NoRepeatedKey(m) == \A i, j \in 1..Len(m) : m[i].key = m[j].key => i = j

NewData == {m \in UpdateMaps(MaxUpdates) : Len(m) >= 1 /\ NoRepeatedKey(m)}

\* The disks the store starts on: the YAML file of the default directory
\* holds one of the documents or is absent; its siblings with another
\* suffix are both absent or both hold a document.
InitDisks ==
    { [p \in AllPaths |->
         IF p = PathOf("configs", YamlName) THEN y
         ELSE IF p = PathOf("configs", JsonName) THEN j[1]
         ELSE IF p = PathOf("configs", UpperName) THEN j[2]
         ELSE Absent] :
      y \in {File(Dump(doc)) : doc \in InitDocs} \cup {Absent},
      j \in {<<Absent, Absent>>, <<File(Dump(DocScalars)), File(Dump(DocNested))>>} }

StorePaths == {PathOf("configs", n) : n \in {YamlName, UpperName, JsonName}}

\* ------------------------------------------------- the composition engine

\* A configuration value: None, the raw document (a DictConfig), or the
\* instantiated object graph.
Value(tag, doc) == [tag |-> tag, doc |-> doc]
NoValue == Value("None", NoneNode)

\* An argument left at None ("" is falsy as well).
NoDir == ""
NoFile == <<>>
NoPath == [dir |-> NoDir, name |-> NoFile]
\* A call in progress: its arguments, where it stands, what it holds
\* (built: the file a model constructed by its instantiate has loaded).
NoFrame == [fn |-> "none", pc |-> "none", dir |-> NoDir, file |-> NoFile,
            overrides |-> <<>>, updates |-> <<>>, ret |-> NoValue,
            cfg |-> NoneNode, saved |-> FALSE, active |-> FALSE,
            existed |-> FALSE, built |-> NoPath]

NoDone == [fn |-> "none", err |-> "none", val |-> NoValue, dir |-> NoDir,
           file |-> NoFile, overrides |-> <<>>, updates |-> <<>>,
           active |-> FALSE, existed |-> FALSE, fresh |-> FALSE,
           prev |-> NoValue, nested |-> FALSE, built |-> NoPath]

concVars == <<lock, threads, dirs>>

\* No thread holds the lock.
Free == "free"
Threads == {"A", "B"}

\* A thread: the call it makes (op, its arguments), where it stands (pc),
\* the document it holds in memory, its outcome, and whether it has read
\* the file between another thread's open(path, "w") and the end of that
\* thread's dump.
Idle == [op |-> "idle", pc |-> "idle", path |-> NoPath, data |-> <<>>,
         dir |-> NoDir, to |-> NoPath, mem |-> NoneNode, err |-> "none",
         val |-> NoneNode, torn |-> FALSE]

\* The state of lock, threads and directories after import.
InitConcState ==
    /\ lock = Free
    /\ threads = [t \in Threads |-> Idle]
    /\ dirs = Dirs

engineVars == <<backup, resolver_registered, resolvers, global_hydra,
                settings, stack, done, counts>>

\* The state after import: nothing backed up, no resolver, no composition
\* root, an empty settings slot.
InitEngineState ==
    /\ backup = [n \in FileNames |-> Absent]
    /\ resolver_registered = FALSE
    /\ resolvers = <<>>
    /\ global_hydra = FALSE
    /\ settings = NoValue
    /\ stack = <<>>
    /\ done = [facade |-> NoDone, load |-> NoDone]
    /\ counts = [calls |-> 0, ensure |-> 0, register |-> 0, stored |-> 0]

\* ------------------------------------------------------------ the generators

\* The generators set_seed seeds: Python's random, NumPy's legacy global
\* generator, torch's CPU generator and torch's CUDA generators.
Generators == {"random", "numpy", "torch", "cuda"}

\* A generator is a state in 0..Period-1; a draw gives the state and
\* advances it, and seeding with s puts it in a state that s alone fixes.
States == 0..(Period - 1)
Seeded(s) == s % Period
Advance(st) == (st + 1) % Period

\* No set_seed call yet, nothing drawn.
NoDrawn == [called |-> FALSE, seed |-> 0, err |-> "none", seedings |-> 0,
            out |-> [g \in Generators |-> <<>>]]

seedVars == <<rng, drawn>>

\* The state after import, where nothing is drawn: the generators in one
\* state, the cuDNN flags as torch imports them.
InitSeedState ==
    /\ rng = [state |-> [g \in Generators |-> 0],
              deterministic |-> FALSE, benchmark |-> FALSE]
    /\ drawn = NoDrawn

\* random.seed(seed): every int is taken.
random_seed(r, seed) ==
    [err |-> "ok", rng |-> [r EXCEPT !.state["random"] = Seeded(seed)]]

\* np.random.seed(seed): the legacy seeding takes 0 <= seed < 2**32 and raises
\* ValueError otherwise, leaving the generator as it was.  The seeds of the
\* model are all below the upper limit.
np_random_seed(r, seed) ==
    IF seed >= 0
    THEN [err |-> "ok", rng |-> [r EXCEPT !.state["numpy"] = Seeded(seed)]]
    ELSE [err |-> "ValueError", rng |-> r]

\* torch.manual_seed(seed): negative seeds are remapped, none of the model's
\* seeds is refused.
manual_seed(r, seed) ==
    [err |-> "ok", rng |-> [r EXCEPT !.state["torch"] = Seeded(seed)]]

\* torch.cuda.manual_seed_all(seed)
manual_seed_all(r, seed) ==
    [err |-> "ok", rng |-> [r EXCEPT !.state["cuda"] = Seeded(seed)]]

\* set_seed(seed): the four seedings in the order of the code, the first one
\* that raises ends the call, then the two cuDNN flags.
set_seed(r, seed) ==
    LET r1 == random_seed(r, seed)
        r2 == np_random_seed(r1.rng, seed)
        r3 == manual_seed(r2.rng, seed)
        r4 == manual_seed_all(r3.rng, seed)
    IN IF r2.err # "ok" THEN r2
       ELSE [err |-> "ok",
             rng |-> [r4.rng EXCEPT !.deterministic = TRUE,
                                    !.benchmark = FALSE]]

\* ---------------------------------------------- the document store, called

Call(op, path, data, pre, r) ==
    [op |-> op, path |-> path, data |-> data, pre |-> pre, post |-> r.disk,
     err |-> r.err, val |-> r.val, logs |-> r.logs]

InitFile ==
    /\ disk \in InitDisks
    /\ calls = <<>>
    /\ InitEngineState
    /\ InitConcState
    /\ InitSeedState

\* write_file(path=path, data=new_data), as the first call
WriteFile ==
    /\ calls = <<>>
    /\ \E path \in StorePaths, new_data \in NewData :
          LET r == write_file(disk, path, new_data)
          IN /\ disk' = r.disk
             /\ calls' = Append(calls, Call("write_file", path, new_data, disk, r))
    /\ UNCHANGED <<engineVars, concVars, seedVars>>

\* read_file(path=path), as the first call or to re-read the file just
\* written
ReadFile ==
    /\ \E path \in StorePaths :
          /\ \/ calls = <<>>
             \/ Len(calls) = 1 /\ calls[1].op = "write_file" /\ calls[1].path = path
          /\ LET r == read_file(disk, path)
             IN /\ disk' = r.disk
                /\ calls' = Append(calls, Call("read_file", path, <<>>, disk, r))
    /\ UNCHANGED <<engineVars, concVars, seedVars>>

NextFile == WriteFile \/ ReadFile

vars == <<disk, calls, backup, resolver_registered, resolvers, global_hydra,
          settings, stack, done, counts, lock, threads, dirs, rng, drawn>>

SpecFile == InitFile /\ [][NextFile]_vars

\* ------------------------------------------ the engine's steps, as operators

DefaultDir == "configs"
DefaultFile == YamlName

\* config_dir or cls.config_dir; config_file or cls.config_file;
\* Path(config_dir) / config_file
ResolveDir(dir) == IF dir = NoDir THEN DefaultDir ELSE dir
ResolveFile(file) == IF file = NoFile THEN DefaultFile ELSE file
ConfigPath(dir, file) == PathOf(ResolveDir(dir), ResolveFile(file))

Names(reg) == {reg[i] : i \in 1..Len(reg)}

\* OmegaConf.register_new_resolver(name, ...): a name registered already is
\* refused with ValueError.
register_new_resolver(reg, name) ==
    IF name \in Names(reg) THEN [err |-> "ValueError", resolvers |-> reg]
    ELSE [err |-> "ok", resolvers |-> Append(reg, name)]

\* Mutant: the flag is not set after the registration.
_ensure_resolver_unflagged(flag, reg) ==
    LET r == register_new_resolver(reg, "path_config")
    IN [err |-> r.err, flag |-> flag, resolvers |-> r.resolvers, tried |-> 1]

\* _ensure_resolver: register path_config unless the flag says it is done.
_ensure_resolver(flag, reg) ==
    IF ~flag
    THEN LET r == register_new_resolver(reg, "path_config")
         IN [err |-> r.err, flag |-> (IF r.err = "ok" THEN TRUE ELSE flag),
             resolvers |-> r.resolvers, tried |-> 1]
    ELSE [err |-> "ok", flag |-> flag, resolvers |-> reg, tried |-> 0]

\* Mutant: an absent source is skipped silently.
copy2_lenient(d, b, path) ==
    IF ~d[path].exists THEN [err |-> "ok", backup |-> b]
    ELSE [err |-> "ok", backup |-> [b EXCEPT ![path.name] = d[path]]]

\* shutil.copy2(config_path, Path(path_config.config_backup)): the copy
\* takes the name of the source inside the backup directory.
copy2(d, b, path) ==
    IF ~d[path].exists THEN [err |-> "FileNotFoundError", backup |-> b]
    ELSE [err |-> "ok", backup |-> [b EXCEPT ![path.name] = d[path]]]

\* Mutant: the composition context is never found active.
is_initialized_never(g) == FALSE

\* GlobalHydra.instance().is_initialized()
is_initialized(g) == g

\* OmegaConf's loader: mappings become DictConfig, sequences ListConfig,
\* an empty file an empty DictConfig.
RECURSIVE OmegaConfLoad(_)
OmegaConfLoad(text) ==
    CASE text.kind = "mapping" ->
            MapNode([i \in 1..Len(text.items) |->
                        Entry(text.items[i].k, OmegaConfLoad(text.items[i].n))])
      [] text.kind = "scalar" -> IntNode(text.v)
      [] text.kind = "string" -> StrNode(text.v)
      [] text.kind = "sequence" -> ListNode(text.v, text.dim)
      [] OTHER -> MapNode(<<>>)

\* OmegaConf.update(cfg, key, value, merge=True, force_add=True): the
\* intermediate nodes that are missing or primitive become empty mappings.
RECURSIVE ForceSet(_, _, _)
ForceSet(node, keys, value) ==
    IF Len(keys) = 1 THEN SetItem(node, keys[1], value)
    ELSE LET child == IF HasKey(node, keys[1]) /\ GetItem(node, keys[1]).kind = "map"
                      THEN GetItem(node, keys[1]) ELSE MapNode(<<>>)
         IN SetItem(node, keys[1], ForceSet(child, Tail(keys), value))

\* The value the walk of keys selects, if every segment is a key.
RECURSIVE Selects(_, _)
Selects(node, keys) ==
    \/ keys = <<>>
    \/ /\ HasKey(node, Head(keys))
       /\ Selects(GetItem(node, Head(keys)), Tail(keys))

\* One override on the composed document, which is in struct mode:
\*   path=value    overwrites a key that exists, fails otherwise
\*   +path=value   adds a key that does not exist, fails otherwise
\*   ++path=value  adds or overwrites
ApplyOverride(doc, ov) ==
    LET keys == Split(ov.key)
    IN CASE ov.op = "++" -> Ok(ForceSet(doc, keys, ov.value))
         [] ov.op = "+" ->
              IF Selects(doc, keys) THEN Raise("ConfigCompositionException", doc)
              ELSE Ok(ForceSet(doc, keys, ov.value))
         [] OTHER ->
              IF Selects(doc, keys) THEN Ok(ForceSet(doc, keys, ov.value))
              ELSE Raise("ConfigCompositionException", doc)

RECURSIVE ApplyOverrides(_, _)
ApplyOverrides(doc, overrides) ==
    IF overrides = <<>> THEN Ok(doc)
    ELSE LET r == ApplyOverride(doc, Head(overrides))
         IN IF r.err # "ok" THEN r
            ELSE ApplyOverrides(r.node, Tail(overrides))

\* compose(config_file, overrides=overrides) under the root on config_dir
compose(d, path, overrides) ==
    IF ~d[path].exists THEN Raise("MissingConfigException", NoneNode)
    ELSE ApplyOverrides(OmegaConfLoad(d[path].text), overrides)

\* Mutant: the overrides are not handed on to compose.
ComposeOverridesDropped(frame) == <<>>

\* The overrides load_config hands to compose (None is no override).
ComposeOverrides(frame) == frame.overrides

\* The strings of the documents: the class a _target_ names, a file name.
SmolLM3Target == StrNode(1)
SettingsFileStr == StrNode(2)
ktarget == <<"_target_">>
kmodel == <<"model">>
kfile == <<"config_file">>
kconfig == <<"config">>
kparams == <<"model_params">>

\* The model node of a configuration: a mapping with a type reference.
HasModel(cfg) ==
    /\ HasKey(cfg, kmodel)
    /\ HasKey(GetItem(cfg, kmodel), ktarget)

\* SmolLM3Model.__post_init__: the directory and the file of the model's
\* own configuration, the constructor's arguments or the defaults.
ModelDir == "models"
FileOfStr(node) == IF node = SettingsFileStr THEN YamlName ELSE ModelName
ModelFileArg(cfg) ==
    IF HasKey(GetItem(cfg, kmodel), kfile)
    THEN FileOfStr(GetItem(GetItem(cfg, kmodel), kfile))
    ELSE NoFile
ModelFile(cfg) == IF ModelFileArg(cfg) = NoFile THEN ModelName ELSE ModelFileArg(cfg)

\* instantiate(config, _convert_="object") of a configuration without a
\* type reference: plain containers.
instantiate(cfg) == [err |-> "ok", val |-> Value("object", cfg)]

\* ... and of one with a model node, once the constructor has returned:
\* the node is the instance, holding the configuration it loaded.
instantiated(cfg, loaded) ==
    Value("object",
          SetItem(cfg, kmodel,
                  Node("object", GetItem(GetItem(cfg, kmodel), ktarget).v, 0, FALSE,
                       <<Entry(kconfig, loaded.doc)>>)))

\* OmegaConf.load(config_path)
load_raw(d, path) ==
    IF ~d[path].exists THEN [err |-> "FileNotFoundError", val |-> NoValue]
    ELSE [err |-> "ok", val |-> Value("raw", OmegaConfLoad(d[path].text))]

\* Mutant: a slot that holds a configuration keeps it.
StoreSettingsOnce(old, ret) == IF old.tag = "None" THEN ret ELSE old

\* cls.settings = <the value returned>
StoreSettings(old, ret) == ret

\* ------------------------------------------------------ inputs of the engine

Override(op, key, value) == [op |-> op, key |-> key, value |-> value]
OverrideKeys == { <<"x">>, <<"x", DOT, "y">> }
OverrideOps == { "", "+", "++" }
\* overrides=None, or one override expression
OverrideLists ==
    { <<>> } \cup
    { <<Override(op, k, IntNode(5))>> : op \in OverrideOps, k \in OverrideKeys }

\* (config_dir, config_file) as the caller gives them
Targets == { <<NoDir, NoFile>>, <<"models", NoFile>>, <<"models", YamlName>> }
\* ... and a file that is not YAML, for AppConfig.update
UpdateTargets == Targets \cup { <<NoDir, JsonName>> }

EngineUpdates ==
    { <<[key |-> <<"x">>, value |-> IntNode(5)]>>,
      <<[key |-> <<"a", DOT, "b", DOT, "c">>, value |-> IntNode(5)]>>,
      <<[key |-> <<"a", DOT, "b">>, value |-> IntNode(5)],
        [key |-> <<"a">>, value |-> IntNode(6)]>>,
      <<[key |-> <<"x">>, value |-> Instance(9)]>> }

\* x: 2, model: {_target_: SmolLM3Model}
DocApp ==
    MapNode(<<Entry(kx, IntNode(2)),
              Entry(kmodel, MapNode(<<Entry(ktarget, SmolLM3Target)>>))>>)
\* x: 2, model: {_target_: SmolLM3Model, config_file: settings.yaml}
DocAppFile ==
    MapNode(<<Entry(kx, IntNode(2)),
              Entry(kmodel, MapNode(<<Entry(ktarget, SmolLM3Target),
                                      Entry(kfile, SettingsFileStr)>>))>>)
\* model_params: {x: 1}
DocModel == MapNode(<<Entry(kparams, MapNode(<<Entry(kx, IntNode(1))>>))>>)

\* A disk: the settings of the default directory, the settings.yaml and
\* the model configuration of the model's directory.
Disk(c, m, l) ==
    [p \in AllPaths |->
        IF p = PathOf("configs", YamlName) THEN c
        ELSE IF p = PathOf("models", YamlName) THEN m
        ELSE IF p = PathOf("models", ModelName) THEN l
        ELSE Absent]

EngineDisks ==
    { Disk(File(Dump(DocNested)), File(Dump(DocNoB)), File(Dump(DocModel))),
      Disk(File(Dump(DocApp)), Absent, File(Dump(DocModel))),
      Disk(File(Dump(DocApp)), File(Dump(DocNoB)), Absent),
      Disk(File(Dump(DocAppFile)), File(Dump(DocNoB)), File(Dump(DocModel))),
      Disk(Absent, File(Dump(DocNoB)), File(Dump(DocModel))) }

\* ------------------------------------------------------ the engine, running

Top == stack[Len(stack)]
Caller == stack[Len(stack) - 1]
Running(fn, pc) == stack # <<>> /\ Top.fn = fn /\ Top.pc = pc

Frame(fn, pc, dir, file, overrides, updates) ==
    [NoFrame EXCEPT !.fn = fn, !.pc = pc, !.dir = dir, !.file = file,
                    !.overrides = overrides, !.updates = updates,
                    !.existed = disk[ConfigPath(dir, file)].exists]

\* A constructor is running below the top frame.
Constructing == \E i \in 1..(Len(stack) - 1) : stack[i].pc = "construct"

DoneOf(frame, err, val) ==
    [fn |-> frame.fn, err |-> err, val |-> val, dir |-> frame.dir,
     file |-> frame.file, overrides |-> frame.overrides,
     updates |-> frame.updates, active |-> frame.active,
     existed |-> frame.existed, fresh |-> TRUE, prev |-> settings,
     nested |-> Constructing, built |-> frame.built]

Stale(d) == [d EXCEPT !.fresh = FALSE]

\* The top frame moves on.
Goto(pc) == stack' = [stack EXCEPT ![Len(stack)].pc = pc]

\* No step of the engine is one of its returns.
NoReturn == done' = [facade |-> Stale(done.facade), load |-> Stale(done.load)]

\* An exception: nothing on the stack catches it, every call on it ends.
\* What leaves a constructor reaches the callers of instantiate wrapped in
\* an InstantiationException.
Raised(e) ==
    /\ stack' = <<>>
    /\ done' = [facade |-> DoneOf(stack[1],
                                  IF Constructing THEN "InstantiationException" ELSE e,
                                  NoValue),
                load |-> IF Top.fn = "load_config" THEN DoneOf(Top, e, NoValue)
                         ELSE Stale(done.load)]

\* load_config returns val to its caller.
Returned(val) ==
    /\ stack' = [i \in 1..(Len(stack) - 1) |->
                    IF i = Len(stack) - 1
                    THEN [stack[i] EXCEPT !.ret = val,
                             !.pc = CASE stack[i].fn = "update_config" -> "return"
                                      [] stack[i].fn = "load_config" -> "constructed"
                                      [] OTHER -> "store"]
                    ELSE stack[i]]
    /\ done' = [facade |-> Stale(done.facade), load |-> DoneOf(Top, "ok", val)]

Init ==
    /\ disk \in EngineDisks
    /\ calls = <<>>
    /\ InitEngineState
    /\ InitConcState
    /\ InitSeedState

\* AppConfig.load(config_dir, config_file, overrides) calls load_config
AppConfigLoad(dir, file, overrides) ==
    /\ stack = <<>>
    /\ counts.calls < MaxCalls
    /\ stack' = << Frame("AppConfig.load", "call", dir, file, overrides, <<>>),
                   Frame("load_config", "ensure", dir, file, overrides, <<>>) >>
    /\ counts' = [counts EXCEPT !.calls = @ + 1]
    /\ done' = [facade |-> NoDone, load |-> NoDone]
    /\ UNCHANGED <<disk, calls, concVars, seedVars, backup, resolver_registered, resolvers,
                   global_hydra, settings>>

\* AppConfig.update(updates, config_dir, config_file) calls update_config
AppConfigUpdate(updates, dir, file) ==
    /\ stack = <<>>
    /\ counts.calls < MaxCalls
    /\ stack' = << Frame("AppConfig.update", "call", dir, file, <<>>, updates),
                   Frame("update_config", "ensure", dir, file, <<>>, updates) >>
    /\ counts' = [counts EXCEPT !.calls = @ + 1]
    /\ done' = [facade |-> NoDone, load |-> NoDone]
    /\ UNCHANGED <<disk, calls, concVars, seedVars, backup, resolver_registered, resolvers,
                   global_hydra, settings>>

\* Mutant: load_config checks the composition context right after the
\* resolver, the backup copy is not made.
AfterEnsureNoBackup(fn) == IF fn = "load_config" THEN "check" ELSE "write"

\* The statement after cls._ensure_resolver(): the backup copy in
\* load_config, write_file in update_config (the path is resolved in between).
AfterEnsure(fn) == IF fn = "load_config" THEN "backup" ELSE "write"

\* cls._ensure_resolver(), the first statement of load_config and of
\* update_config
EnsureResolver ==
    /\ stack # <<>> /\ Top.pc = "ensure"
    /\ LET r == _ensure_resolver(resolver_registered, resolvers)
       IN /\ resolver_registered' = r.flag
          /\ resolvers' = r.resolvers
          /\ counts' = [counts EXCEPT !.ensure = @ + 1, !.register = @ + r.tried]
          /\ IF r.err # "ok" THEN Raised(r.err)
             ELSE /\ Goto(AfterEnsure(Top.fn))
                  /\ NoReturn
    /\ UNCHANGED <<disk, calls, concVars, seedVars, backup, global_hydra, settings>>

\* shutil.copy2(config_path, Path(path_config.config_backup))
BackupCopy ==
    /\ Running("load_config", "backup")
    /\ LET r == copy2(disk, backup, ConfigPath(Top.dir, Top.file))
       IN /\ backup' = r.backup
          /\ IF r.err # "ok" THEN Raised(r.err)
             ELSE Goto("check") /\ NoReturn
    /\ UNCHANGED <<disk, calls, concVars, seedVars, resolver_registered, resolvers, global_hydra,
                   settings, counts>>

\* if GlobalHydra.instance().is_initialized():
CheckContext ==
    /\ Running("load_config", "check")
    /\ stack' = [stack EXCEPT
                    ![Len(stack)].active = global_hydra,
                    ![Len(stack)].pc = IF is_initialized(global_hydra)
                                       THEN "load_raw" ELSE "initialize"]
    /\ NoReturn
    /\ UNCHANGED <<disk, calls, concVars, seedVars, backup, resolver_registered, resolvers,
                   global_hydra, settings, counts>>

\* return OmegaConf.load(config_path)
LoadRaw ==
    /\ Running("load_config", "load_raw")
    /\ LET r == load_raw(disk, ConfigPath(Top.dir, Top.file))
       IN IF r.err # "ok" THEN Raised(r.err) ELSE Returned(r.val)
    /\ UNCHANGED <<disk, calls, concVars, seedVars, backup, resolver_registered, resolvers,
                   global_hydra, settings, counts>>

\* with initialize_config_dir(str(config_dir), version_base=None): a root
\* is established; one that is there already is refused with ValueError.
Initialize ==
    /\ Running("load_config", "initialize")
    /\ IF global_hydra
       THEN Raised("ValueError") /\ UNCHANGED global_hydra
       ELSE /\ global_hydra' = TRUE
            /\ stack' = [stack EXCEPT ![Len(stack)].saved = global_hydra,
                                      ![Len(stack)].pc = "compose"]
            /\ NoReturn
    /\ UNCHANGED <<disk, calls, concVars, seedVars, backup, resolver_registered, resolvers,
                   settings, counts>>

\* Mutant: the root stays when the with block is left.
ExitContextKept(frame) == TRUE

\* initialize_config_dir.__exit__: the context found on entry is restored.
ExitContext(frame) == frame.saved

\* config = compose(config_file, overrides=overrides), then the with block
\* is left and the context it found is restored, also on an exception.
Compose ==
    /\ Running("load_config", "compose")
    /\ LET r == compose(disk, ConfigPath(Top.dir, Top.file), ComposeOverrides(Top))
       IN /\ global_hydra' = ExitContext(Top)
          /\ IF r.err # "ok" THEN Raised(r.err)
             ELSE /\ stack' = [stack EXCEPT ![Len(stack)].cfg = r.node,
                                            ![Len(stack)].pc = "instantiate"]
                  /\ NoReturn
    /\ UNCHANGED <<disk, calls, concVars, seedVars, backup, resolver_registered, resolvers,
                   settings, counts>>

\* return instantiate(config, _convert_="object"), no type reference in
\* the configuration
Instantiate ==
    /\ Running("load_config", "instantiate")
    /\ ~HasModel(Top.cfg)
    /\ LET r == instantiate(Top.cfg)
       IN IF r.err # "ok" THEN Raised(r.err) ELSE Returned(r.val)
    /\ UNCHANGED <<disk, calls, concVars, seedVars, backup, resolver_registered, resolvers,
                   global_hydra, settings, counts>>

\* instantiate reaches the model node and calls its class: __post_init__
\* resolves the model's own configuration and calls
\* HydraUtils.load_config(config_dir=..., config_file=...) through
\* _load_config
ConstructModel ==
    /\ Running("load_config", "instantiate")
    /\ HasModel(Top.cfg)
    /\ stack' = Append([stack EXCEPT ![Len(stack)].pc = "construct",
                                     ![Len(stack)].built =
                                         ConfigPath(ModelDir, ModelFile(Top.cfg))],
                       Frame("load_config", "ensure", ModelDir,
                             ModelFile(Top.cfg), <<>>, <<>>))
    /\ NoReturn
    /\ UNCHANGED <<disk, calls, concVars, seedVars, backup, resolver_registered, resolvers,
                   global_hydra, settings, counts>>

\* The constructor has its configuration; load_model swallows its own
\* errors, so the instance is built and instantiate returns.
ModelConstructed ==
    /\ Running("load_config", "constructed")
    /\ Returned(instantiated(Top.cfg, Top.ret))
    /\ UNCHANGED <<disk, calls, concVars, seedVars, backup, resolver_registered, resolvers,
                   global_hydra, settings, counts>>

\* write_file(path=config_path, data=updates), then
\* cls.load_config(config_dir, config_file) is called
WriteUpdates ==
    /\ Running("update_config", "write")
    /\ LET path == ConfigPath(Top.dir, Top.file)
           r == write_file(disk, path, Top.updates)
       IN /\ disk' = r.disk
          /\ IF r.err # "ok" THEN Raised(r.err)
             ELSE /\ stack' = Append([stack EXCEPT ![Len(stack)].pc = "reload"],
                                     Frame("load_config", "ensure", path.dir,
                                           path.name, <<>>, <<>>))
                  /\ NoReturn
    /\ UNCHANGED <<calls, concVars, seedVars, backup, resolver_registered, resolvers, global_hydra,
                   settings, counts>>

\* update_config returns what its load_config returned
UpdateReturn ==
    /\ Running("update_config", "return")
    /\ stack' = << [stack[1] EXCEPT !.ret = Top.ret, !.pc = "store"] >>
    /\ NoReturn
    /\ UNCHANGED <<disk, calls, concVars, seedVars, backup, resolver_registered, resolvers,
                   global_hydra, settings, counts>>

\* cls.settings = ..., the assignment that ends AppConfig.load and
\* AppConfig.update
Store ==
    /\ stack # <<>> /\ Top.pc = "store"
    /\ settings' = StoreSettings(settings, Top.ret)
    /\ stack' = <<>>
    /\ done' = [facade |-> DoneOf(Top, "ok", Top.ret), load |-> Stale(done.load)]
    /\ counts' = [counts EXCEPT !.stored = @ + 1]
    /\ UNCHANGED <<disk, calls, concVars, seedVars, backup, resolver_registered, resolvers,
                   global_hydra>>

\* Between two calls the application establishes a composition root of its
\* own (it runs under the composition framework) ...
GlobalHydraInitialize ==
    /\ stack = <<>> /\ ~global_hydra
    /\ global_hydra' = TRUE
    /\ NoReturn
    /\ UNCHANGED <<disk, calls, concVars, seedVars, backup, resolver_registered, resolvers,
                   settings, stack, counts>>

\* ... or clears it: GlobalHydra.instance().clear()
GlobalHydraClear ==
    /\ stack = <<>> /\ global_hydra
    /\ global_hydra' = FALSE
    /\ NoReturn
    /\ UNCHANGED <<disk, calls, concVars, seedVars, backup, resolver_registered, resolvers,
                   settings, stack, counts>>

Next ==
    \/ \E t \in Targets, o \in OverrideLists : AppConfigLoad(t[1], t[2], o)
    \/ \E t \in UpdateTargets, u \in EngineUpdates : AppConfigUpdate(u, t[1], t[2])
    \/ EnsureResolver
    \/ BackupCopy
    \/ CheckContext
    \/ LoadRaw
    \/ Initialize
    \/ Compose
    \/ Instantiate
    \/ ConstructModel
    \/ ModelConstructed
    \/ WriteUpdates
    \/ UpdateReturn
    \/ Store
    \/ GlobalHydraInitialize
    \/ GlobalHydraClear

Spec == Init /\ [][Next]_vars

\* A process in which load_config's roots are the only ones: the
\* application establishes none of its own.
NextFresh ==
    \/ \E t \in Targets, o \in OverrideLists : AppConfigLoad(t[1], t[2], o)
    \/ \E t \in UpdateTargets, u \in EngineUpdates : AppConfigUpdate(u, t[1], t[2])
    \/ EnsureResolver
    \/ BackupCopy
    \/ CheckContext
    \/ Initialize
    \/ Compose
    \/ Instantiate
    \/ ConstructModel
    \/ ModelConstructed
    \/ WriteUpdates
    \/ UpdateReturn
    \/ Store

SpecFresh == Init /\ [][NextFresh]_vars

\* --------------------------------- the document store, called by threads

\* with _lock: the block is entered when no thread holds the lock.
\* Mutant: the block is entered at once.
LockIgnored(l) == TRUE

LockFree(l) == l = Free

\* os.makedirs(dir_path, exist_ok=True)
makedirs(ds, dir) == ds \cup {dir}

\* The files of a directory.
Within(dir) == {p \in AllPaths : p.dir = dir}

\* remove_dir inside the lock: shutil.rmtree of a directory that exists,
\* FileNotFoundError otherwise.
rmtree(d, ds, dir) ==
    IF dir \notin ds THEN [err |-> "FileNotFoundError", disk |-> d, dirs |-> ds]
    ELSE [err |-> "ok",
          disk |-> [p \in AllPaths |-> IF p.dir = dir THEN Absent ELSE d[p]],
          dirs |-> ds \ {dir}]

\* os.rename(dir_path, new_dir_path): the source must exist, and a target
\* that exists must be empty; rename_dir turns the OSError into RuntimeError.
rename(d, ds, dir, new) ==
    IF \/ dir \notin ds
       \/ new \in ds /\ \E p \in Within(new) : d[p].exists
    THEN [err |-> "RuntimeError", disk |-> d, dirs |-> ds]
    ELSE [err |-> "ok",
          disk |-> [p \in AllPaths |->
                       IF p.dir = new THEN d[PathOf(dir, p.name)]
                       ELSE IF p.dir = dir THEN Absent
                       ELSE d[p]],
          dirs |-> (ds \ {dir}) \cup {new}]

\* copy_file inside the lock: FileNotFoundError for a source that does not
\* exist; shutil.copy fails (RuntimeError) when the target's directory does
\* not exist.
copy(d, ds, src, dest) ==
    IF ~d[src].exists THEN [err |-> "FileNotFoundError", disk |-> d]
    ELSE IF dest.dir \notin ds THEN [err |-> "RuntimeError", disk |-> d]
    ELSE [err |-> "ok", disk |-> [d EXCEPT ![dest] = d[src]]]

\* open(path, "w"): the file is created or emptied; its directory must exist.
open_w(d, ds, path) ==
    IF path.dir \notin ds THEN [err |-> "FileNotFoundError", disk |-> d]
    ELSE [err |-> "ok", disk |-> [d EXCEPT ![path] = Truncated]]

\* The calls the threads make.
SettingsPath == PathOf("configs", YamlName)
ThreadCall(op, path, data, dir, to) ==
    [Idle EXCEPT !.op = op, !.path = path, !.data = data, !.dir = dir, !.to = to]
\* The update maps the threads write: x = 5, a.b.c = 5, and a value yaml.dump
\* refuses.
ThreadUpdates ==
    { <<[key |-> <<"x">>, value |-> IntNode(5)]>>,
      <<[key |-> <<"a", DOT, "b", DOT, "c">>, value |-> IntNode(5)]>>,
      <<[key |-> <<"x">>, value |-> Instance(9)]>> }
ThreadCalls ==
    { ThreadCall("write_file", SettingsPath, u, NoDir, NoPath) : u \in ThreadUpdates }
    \cup
    { ThreadCall("read_file", SettingsPath, <<>>, NoDir, NoPath),
      ThreadCall("load_config", SettingsPath, <<>>, NoDir, NoPath),
      ThreadCall("create_dir", NoPath, <<>>, "models", NoPath),
      ThreadCall("remove_dir", NoPath, <<>>, "configs", NoPath),
      ThreadCall("rename_dir", NoPath, <<>>, "configs", PathOf("models", NoFile)),
      ThreadCall("rename_dir_if_exists", NoPath, <<>>, "configs", PathOf("models", NoFile)),
      ThreadCall("copy_file", SettingsPath, <<>>, NoDir, PathOf("models", YamlName)) }

Locking == {"write_file", "create_dir", "remove_dir", "rename_dir", "copy_file"}

\* The file is open for writing in another thread, which has not finished
\* its dump.
MidWrite(t, path) ==
    \E u \in Threads \ {t} :
        /\ threads[u].op = "write_file" /\ threads[u].pc = "dump"
        /\ threads[u].path = path

At(t, op, pc) == threads[t].op = op /\ threads[t].pc = pc
Step(t, pc) == threads' = [threads EXCEPT ![t].pc = pc]
\* The thread's call ends: it returns (err = "ok") or raises.
Ends(t, err, val) ==
    threads' = [threads EXCEPT ![t].pc = "done", ![t].err = err, ![t].val = val]
\* Mutant: an exception ends the call with the lock still held.
UnwindsHolding(t, err) ==
    threads' = [threads EXCEPT ![t].pc = IF err = "ok" THEN "release" ELSE "done",
                               ![t].err = err]

\* The with block ends, by its last statement, a return or an exception:
\* the block is left, the lock released.
Unwinds(t, err) ==
    threads' = [threads EXCEPT ![t].pc = "release", ![t].err = err]

InitConc ==
    /\ disk = [p \in AllPaths |->
                  IF p = SettingsPath THEN File(Dump(DocNested)) ELSE Absent]
    /\ calls = <<>>
    /\ InitEngineState
    /\ InitSeedState
    /\ lock = Free
    /\ threads = [t \in Threads |-> Idle]
    /\ dirs = {"configs"}

\* A thread starts its call; write_file has dispatched on the extension and
\* is at the with statement of _write_yaml, as are the directory operations
\* and copy_file.
Begin(t, call) ==
    /\ threads[t].op = "idle"
    /\ threads' = [threads EXCEPT ![t] =
           [call EXCEPT !.pc = CASE call.op \in Locking -> "acquire"
                                 [] call.op = "read_file" -> "load"
                                 [] call.op = "rename_dir_if_exists" -> "exists"
                                 [] OTHER -> "copy"]]
    /\ UNCHANGED <<disk, calls, engineVars, seedVars, lock, dirs>>

\* with _lock:
Acquire(t) ==
    /\ threads[t].pc = "acquire"
    /\ LockFree(lock)
    /\ lock' = t
    /\ Step(t, IF threads[t].op = "write_file" THEN "read" ELSE "mutate")
    /\ UNCHANGED <<disk, calls, engineVars, seedVars, dirs>>

\* data = read_file(path=path)
WriteRead(t) ==
    /\ At(t, "write_file", "read")
    /\ LET r == read_file(disk, threads[t].path)
       IN IF r.err # "ok" THEN Unwinds(t, r.err)
          ELSE threads' = [threads EXCEPT ![t].pc = "apply", ![t].mem = r.val]
    /\ UNCHANGED <<disk, calls, engineVars, seedVars, lock, dirs>>

\* for key, value in new_data.items(): ...
WriteApply(t) ==
    /\ At(t, "write_file", "apply")
    /\ LET u == ApplyUpdates(threads[t].mem, threads[t].data)
       IN IF u.err # "ok" THEN Unwinds(t, u.err)
          ELSE threads' = [threads EXCEPT ![t].pc = "open", ![t].mem = u.node]
    /\ UNCHANGED <<disk, calls, engineVars, seedVars, lock, dirs>>

\* with open(path, "w") as yaml_file:
WriteOpen(t) ==
    /\ At(t, "write_file", "open")
    /\ LET r == open_w(disk, dirs, threads[t].path)
       IN /\ disk' = r.disk
          /\ IF r.err # "ok" THEN Unwinds(t, r.err) ELSE Step(t, "dump")
    /\ UNCHANGED <<calls, engineVars, seedVars, lock, dirs>>

\* yaml.dump(data, yaml_file); a refused dump leaves the opened file empty
WriteDump(t) ==
    /\ At(t, "write_file", "dump")
    /\ IF Representable(threads[t].mem)
       THEN /\ disk' = [disk EXCEPT ![threads[t].path] = File(Dump(threads[t].mem))]
            /\ Unwinds(t, "ok")
       ELSE /\ disk' = disk
            /\ Unwinds(t, "RepresenterError")
    /\ UNCHANGED <<calls, engineVars, seedVars, lock, dirs>>

\* create_dir(dir_path=dir)
CreateDir(t) ==
    /\ At(t, "create_dir", "mutate")
    /\ dirs' = makedirs(dirs, threads[t].dir)
    /\ Unwinds(t, "ok")
    /\ UNCHANGED <<disk, calls, engineVars, seedVars, lock>>

\* remove_dir(dir_path=dir)
RemoveDir(t) ==
    /\ At(t, "remove_dir", "mutate")
    /\ LET r == rmtree(disk, dirs, threads[t].dir)
       IN /\ disk' = r.disk
          /\ dirs' = r.dirs
          /\ Unwinds(t, r.err)
    /\ UNCHANGED <<calls, engineVars, seedVars, lock>>

\* rename_dir_if_exists(dir_path=dir): os.path.exists outside any lock,
\* then rename_dir with the timestamped name (to, a name not in use when
\* the process starts), or a warning and the path as it is.
RenameDirIfExists(t) ==
    /\ At(t, "rename_dir_if_exists", "exists")
    /\ IF threads[t].dir \in dirs
       THEN threads' = [threads EXCEPT ![t].op = "rename_dir", ![t].pc = "acquire"]
       ELSE Ends(t, "ok", NoneNode)
    /\ UNCHANGED <<disk, calls, engineVars, seedVars, lock, dirs>>

\* rename_dir(dir_path=dir, new_dir_path=to)
RenameDir(t) ==
    /\ At(t, "rename_dir", "mutate")
    /\ LET r == rename(disk, dirs, threads[t].dir, threads[t].to.dir)
       IN /\ disk' = r.disk
          /\ dirs' = r.dirs
          /\ Unwinds(t, r.err)
    /\ UNCHANGED <<calls, engineVars, seedVars, lock>>

\* copy_file(src=path, dest=to)
CopyFile(t) ==
    /\ At(t, "copy_file", "mutate")
    /\ LET r == copy(disk, dirs, threads[t].path, threads[t].to)
       IN /\ disk' = r.disk
          /\ Unwinds(t, r.err)
    /\ UNCHANGED <<calls, engineVars, seedVars, lock, dirs>>

\* The with block is left.
Release(t) ==
    /\ threads[t].pc = "release"
    /\ lock' = Free
    /\ Step(t, "done")
    /\ UNCHANGED <<disk, calls, engineVars, seedVars, dirs>>

\* read_file(path=path): no lock is taken
ReadFileNow(t) ==
    /\ At(t, "read_file", "load")
    /\ LET r == read_file(disk, threads[t].path)
       IN threads' = [threads EXCEPT ![t].pc = "done", ![t].err = r.err,
                                     ![t].val = r.val,
                                     ![t].torn = MidWrite(t, threads[t].path)]
    /\ UNCHANGED <<disk, calls, engineVars, seedVars, lock, dirs>>

\* load_config's shutil.copy2(config_path, ...): no lock is taken
LoadCopy(t) ==
    /\ At(t, "load_config", "copy")
    /\ LET r == copy2(disk, backup, threads[t].path)
       IN /\ backup' = r.backup
          /\ IF r.err # "ok" THEN Ends(t, r.err, NoneNode)
             ELSE threads' = [threads EXCEPT ![t].pc = "load",
                                 ![t].torn = MidWrite(t, threads[t].path)]
    /\ UNCHANGED <<disk, calls, resolver_registered, resolvers, global_hydra,
                   settings, stack, done, counts, lock, dirs, seedVars>>

\* load_config's reading of the document (OmegaConf.load, or compose):
\* no lock is taken
LoadDocument(t) ==
    /\ At(t, "load_config", "load")
    /\ LET r == load_raw(disk, threads[t].path)
       IN threads' = [threads EXCEPT ![t].pc = "done", ![t].err = r.err,
                                     ![t].val = r.val.doc,
                                     ![t].torn = @ \/ MidWrite(t, threads[t].path)]
    /\ UNCHANGED <<disk, calls, engineVars, seedVars, lock, dirs>>

NextConc ==
    \/ \E t \in Threads, call \in ThreadCalls : Begin(t, call)
    \/ \E t \in Threads : Acquire(t)
    \/ \E t \in Threads : WriteRead(t)
    \/ \E t \in Threads : WriteApply(t)
    \/ \E t \in Threads : WriteOpen(t)
    \/ \E t \in Threads : WriteDump(t)
    \/ \E t \in Threads : CreateDir(t)
    \/ \E t \in Threads : RemoveDir(t)
    \/ \E t \in Threads : RenameDirIfExists(t)
    \/ \E t \in Threads : RenameDir(t)
    \/ \E t \in Threads : CopyFile(t)
    \/ \E t \in Threads : Release(t)
    \/ \E t \in Threads : ReadFileNow(t)
    \/ \E t \in Threads : LoadCopy(t)
    \/ \E t \in Threads : LoadDocument(t)

SpecConc == InitConc /\ [][NextConc]_vars

\* The steps of thread t once its call has begun.
ThreadStep(t) ==
    \/ Acquire(t) \/ WriteRead(t) \/ WriteApply(t) \/ WriteOpen(t)
    \/ WriteDump(t) \/ CreateDir(t) \/ RemoveDir(t) \/ RenameDirIfExists(t)
    \/ RenameDir(t) \/ CopyFile(t) \/ Release(t) \/ ReadFileNow(t)
    \/ LoadCopy(t) \/ LoadDocument(t)

\* The scheduler is fair: a thread that can take a step is not left
\* waiting for ever.
SpecConcFair ==
    InitConc /\ [][NextConc]_vars /\ \A t \in Threads : WF_vars(ThreadStep(t))

\* -------------------------------------------------- set_seed, and the draws

\* The seeds callers pass: the default's neighbours and a negative int.
Seeds == {-1, 0, 1}

\* Before the first set_seed the generators are in any state.
InitSeed ==
    /\ disk = [p \in AllPaths |-> Absent]
    /\ calls = <<>>
    /\ InitEngineState
    /\ InitConcState
    /\ rng \in [state : [Generators -> States],
                deterministic : {FALSE}, benchmark : {FALSE}]
    /\ drawn = NoDrawn

RECURSIVE Total(_, _)
Total(out, gs) ==
    IF gs = {} THEN 0
    ELSE LET g == CHOOSE x \in gs : TRUE
         IN Len(out[g]) + Total(out, gs \ {g})

\* set_seed(seed)
SetSeed(seed) ==
    /\ drawn.seedings < MaxSeedings
    /\ LET r == set_seed(rng, seed)
       IN /\ rng' = r.rng
          /\ drawn' = [NoDrawn EXCEPT !.called = TRUE, !.seed = seed,
                                      !.err = r.err,
                                      !.seedings = drawn.seedings + 1]
    /\ UNCHANGED <<disk, calls, engineVars, concVars>>

\* random.random() / np.random.rand() / torch.rand(4) /
\* torch.rand(4, device="cuda")
Draw(g) ==
    /\ Total(drawn.out, Generators) < MaxDraws
    /\ drawn' = [drawn EXCEPT !.out[g] = Append(@, rng.state[g])]
    /\ rng' = [rng EXCEPT !.state[g] = Advance(@)]
    /\ UNCHANGED <<disk, calls, engineVars, concVars>>

NextSeed ==
    \/ \E seed \in Seeds : SetSeed(seed)
    \/ \E g \in Generators : Draw(g)

SpecSeed == InitSeed /\ [][NextSeed]_vars

\* ------------------------------------------- what the claims speak about

\* The dotted path keys names a value of doc.
RECURSIVE PathExists(_, _)
PathExists(doc, keys) ==
    \/ keys = <<>>
    \/ /\ HasKey(doc, Head(keys))
       /\ PathExists(GetItem(doc, Head(keys)), Tail(keys))

\* The value of doc at keys (for a path that exists).
RECURSIVE GetPath(_, _)
GetPath(doc, keys) ==
    IF keys = <<>> THEN doc ELSE GetPath(GetItem(doc, Head(keys)), Tail(keys))

Prefix(keys, j) == SubSeq(keys, 1, j)
IsPrefix(p, q) == Len(p) <= Len(q) /\ Prefix(q, Len(p)) = p

\* Some segment of keys but the last is not an existing key of doc.
IntermediateMissing(doc, keys) ==
    \E j \in 1..(Len(keys) - 1) : ~PathExists(doc, Prefix(keys, j))

\* The error the first missing intermediate segment stands for: the value
\* the walk has reached is a mapping without the segment (KeyError) or is
\* not a mapping at all (TypeError).
MissingError(doc, keys) ==
    LET j == CHOOSE i \in 1..(Len(keys) - 1) :
                 /\ ~PathExists(doc, Prefix(keys, i))
                 /\ PathExists(doc, Prefix(keys, i - 1))
    IN IF GetPath(doc, Prefix(keys, j - 1)).kind = "map"
       THEN "KeyError" ELSE "TypeError"

IsLookupError(e) == e \in {"KeyError", "IndexError", "LookupError"}

\* A value in its plain nested-list form.
Plain(node) ==
    IF node.kind \in {"list", "ndarray", "CommentedSeq"}
    THEN ListNode(node.v, node.dim) ELSE node

\* A write_file call that reached the walk of its entries: a YAML path
\* whose file exists.
WalkedWrite(c) ==
    /\ c.op = "write_file"
    /\ Suffix(c.path) = ".yaml"
    /\ c.pre[c.path].exists

PreDoc(c) == Load(c.pre[c.path].text)

NotYaml(path) == Suffix(path) \notin {".yaml", ".YAML"}

\* C5: read_file and write_file on a path whose extension is not the YAML
\* one fail with NotImplementedError after logging an error, and create or
\* modify no file.
C5_UnsupportedExtension ==
    \A i \in 1..Len(calls) :
        LET c == calls[i]
        IN NotYaml(c.path)
           => /\ c.err = "NotImplementedError"
              /\ c.logs = <<"ERROR">>
              /\ c.post = c.pre

\* write_file then read_file of an absent .json path were both refused and
\* the file is still absent.
C5_Witness ==
    /\ Len(calls) = 2
    /\ calls[1].op = "write_file" /\ calls[2].op = "read_file"
    /\ Suffix(calls[1].path) = ".json" /\ calls[2].path = calls[1].path
    /\ calls[1].err = "NotImplementedError" /\ calls[2].err = "NotImplementedError"
    /\ ~calls[1].pre[calls[1].path].exists
    /\ ~disk[calls[1].path].exists

DocKeys == {ka, kb, kc, kx, ky}
\* The key paths a document of the model can hold.
KeyPaths ==
    {<<>>} \cup {<<k>> : k \in DocKeys} \cup {<<k, l>> : k, l \in DocKeys}
    \cup {<<k, l, m>> : k, l, m \in DocKeys}

\* A write_file that succeeded, followed by a read_file of the same path.
WriteThenRead ==
    /\ Len(calls) = 2
    /\ calls[1].op = "write_file" /\ calls[1].err = "ok"
    /\ calls[2].op = "read_file" /\ calls[2].err = "ok"

\* Every updated path holds the written value in its plain form.
UpdatesReadBack(data, doc) ==
    \A n \in 1..Len(data) :
        LET keys == Split(data[n].key)
        IN /\ PathExists(doc, keys)
           /\ Plain(GetPath(doc, keys)) = Plain(data[n].value)

\* A path no update lies on, above or below.
OffUpdates(p, data) ==
    \A n \in 1..Len(data) :
        LET keys == Split(data[n].key)
        IN ~IsPrefix(p, keys) /\ ~IsPrefix(keys, p)

\* Values off the updated paths are kept, and every mapping that was not
\* replaced keeps its keys in their order (new keys come after them).
RestKept(data, old, new) ==
    \A p \in KeyPaths :
        PathExists(old, p) =>
            /\ OffUpdates(p, data) =>
                  PathExists(new, p) /\ GetPath(new, p) = GetPath(old, p)
            /\ (/\ GetPath(old, p).kind = "map"
                /\ \A n \in 1..Len(data) :
                      ~IsPrefix(Split(data[n].key), p))
               => /\ PathExists(new, p)
                  /\ GetPath(new, p).kind = "map"
                  /\ Len(GetPath(new, p).items) >= Len(GetPath(old, p).items)
                  /\ \A i \in 1..Len(GetPath(old, p).items) :
                        GetPath(new, p).items[i].k = GetPath(old, p).items[i].k

\* C6 as stated: after any successful write_file, read_file returns a
\* document in which each updated path holds the written value and the rest
\* is kept.
C6_RoundTrip_AsStated ==
    WriteThenRead =>
        /\ UpdatesReadBack(calls[1].data, calls[2].val)
        /\ RestKept(calls[1].data, PreDoc(calls[1]), calls[2].val)

\* No path of the map is a prefix of another path of the map.
NoNestedKeys(data) ==
    \A i, j \in 1..Len(data) :
        i # j => ~IsPrefix(Split(data[i].key), Split(data[j].key))

\* C6, amended: for an update map none of whose paths is a prefix of
\* another, after write_file succeeds a subsequent read_file returns a
\* document in which each updated path holds the written value (array-like
\* values in their plain nested-list form) and every key not on an updated
\* path keeps its previous value and its place in the key order.
C6_RoundTrip ==
    (WriteThenRead /\ NoNestedKeys(calls[1].data)) =>
        /\ UpdatesReadBack(calls[1].data, calls[2].val)
        /\ RestKept(calls[1].data, PreDoc(calls[1]), calls[2].val)

\* An array-like value and a scalar were written on two unrelated paths of
\* a document with other keys, and read back.
C6_Witness ==
    /\ WriteThenRead
    /\ Len(calls[1].data) = 2
    /\ NoNestedKeys(calls[1].data)
    /\ \E n \in 1..2 : calls[1].data[n].value.kind = "ndarray"
    /\ \E n \in 1..2 : calls[1].data[n].value.kind = "int"
    /\ \E p \in KeyPaths :
          /\ p # <<>> /\ PathExists(PreDoc(calls[1]), p)
          /\ OffUpdates(p, calls[1].data)


\* The load_config call that has just ended (returned or raised).
LoadEnded == done.load.fresh /\ done.load.fn = "load_config"
LoadPath == ConfigPath(done.load.dir, done.load.file)
\* The document of its file as it is on disk.
LoadDiskDoc == OmegaConfLoad(disk[LoadPath].text)

\* C2: when a composition root is active at load_config's context check,
\* load_config returns the raw uninstantiated document read from disk, the
\* overrides have no effect on it (a key an override targets keeps its
\* on-disk value, a key it would add stays absent), and no second root is
\* established.
C2_DegradedLoad ==
    /\ (LoadEnded /\ done.load.active) =>
          /\ done.load.err = "ok"
          /\ done.load.val = Value("raw", LoadDiskDoc)
          /\ \A i \in 1..Len(done.load.overrides) :
                LET keys == Split(done.load.overrides[i].key)
                IN IF PathExists(LoadDiskDoc, keys)
                   THEN /\ PathExists(done.load.val.doc, keys)
                        /\ GetPath(done.load.val.doc, keys) = GetPath(LoadDiskDoc, keys)
                   ELSE ~PathExists(done.load.val.doc, keys)
    /\ (stack # <<>> /\ Top.fn = "load_config" /\ Top.active) =>
          Top.pc \notin {"initialize", "compose", "instantiate"}

\* A load with the override ++x=5 found a root active and returned the raw
\* document, whose x still is the 2 of the file.
C2_Witness ==
    /\ LoadEnded /\ done.load.active /\ done.load.err = "ok"
    /\ done.load.overrides = <<Override("++", <<"x">>, IntNode(5))>>
    /\ done.load.val.tag = "raw"
    /\ GetPath(done.load.val.doc, <<kx>>) = IntNode(2)

\* The call that has just returned constructed a model whose own
\* load_config backed up a file of the same name from another directory.
SameNameBuilt ==
    /\ done.load.built # NoPath
    /\ done.load.built # LoadPath
    /\ done.load.built.name = LoadPath.name

\* C3 as stated: a load_config call that returns leaves in the backup
\* directory a copy of the resolved source file with the content of the
\* source; a call whose source file does not exist fails with
\* FileNotFoundError.
C3_BackupOnLoad_AsStated ==
    /\ (LoadEnded /\ done.load.err = "ok") =>
          /\ backup[LoadPath.name].exists
          /\ backup[LoadPath.name] = disk[LoadPath]
    /\ (LoadEnded /\ ~done.load.existed) => done.load.err = "FileNotFoundError"

\* C3: right after its backup step a load_config call has in the backup
\* directory a copy of the resolved source file, under the source's name
\* and with the source's content; when the call returns the directory holds
\* a file of that name, with the source's content unless the call
\* constructed a model whose own load_config backed up a same-named file of
\* another directory, whose copy it then is.  A call whose source file does
\* not exist fails with FileNotFoundError, which ends every call in
\* progress: it reaches the caller of the facade as it is, or, from a
\* constructor, wrapped in an InstantiationException.
C3_BackupOnLoad ==
    /\ Running("load_config", "check") =>
          backup[ResolveFile(Top.file)] = disk[ConfigPath(Top.dir, Top.file)]
    /\ (LoadEnded /\ done.load.err = "ok") =>
          /\ backup[LoadPath.name].exists
          /\ IF SameNameBuilt THEN backup[LoadPath.name] = disk[done.load.built]
             ELSE backup[LoadPath.name] = disk[LoadPath]
    /\ (LoadEnded /\ ~done.load.existed) =>
          /\ done.load.err = "FileNotFoundError"
          /\ stack = <<>>
          /\ done.facade.fresh
          /\ done.facade.err = IF done.load.nested THEN "InstantiationException"
                               ELSE "FileNotFoundError"

\* The second call, a load from the models directory, returned; the backup
\* of settings.yaml is that directory's file.
C3_Witness ==
    /\ LoadEnded /\ done.load.err = "ok"
    /\ counts.calls = 2
    /\ done.load.dir = "models"
    /\ ~SameNameBuilt
    /\ backup[YamlName] = disk[PathOf("models", YamlName)]
    /\ backup[YamlName] # disk[PathOf("configs", YamlName)]

\* C4: once load_config or update_config has run _ensure_resolver, however
\* often, path_config is registered exactly once: one registration was
\* made, the flag is set; before the first run nothing is registered.
C4_ResolverOnce ==
    IF counts.ensure = 0
    THEN resolvers = <<>> /\ ~resolver_registered /\ counts.register = 0
    ELSE resolvers = <<"path_config">> /\ resolver_registered /\ counts.register = 1

\* An update (two runs of _ensure_resolver) and a load have ended.
C4_Witness ==
    /\ stack = <<>>
    /\ counts.ensure >= 3
    /\ done.facade.err = "ok"
    /\ resolvers = <<"path_config">>

\* C7: on the normal path a load with one override composes it as its
\* prefix says: path=value overwrites a key that exists and fails when it is
\* absent, +path=value adds a key and fails when it exists, ++path=value
\* succeeds either way; where it succeeds the returned configuration holds
\* the override's value at the path.
C7_OverrideSemantics ==
    (/\ LoadEnded /\ done.load.existed /\ ~done.load.active
     /\ Len(done.load.overrides) = 1)
    => LET ov == done.load.overrides[1]
           keys == Split(ov.key)
           there == PathExists(LoadDiskDoc, keys)
           applied == /\ done.load.err = "ok"
                      /\ done.load.val.tag = "object"
                      /\ PathExists(done.load.val.doc, keys)
                      /\ GetPath(done.load.val.doc, keys) = ov.value
           refused == done.load.err = "ConfigCompositionException"
       IN CASE ov.op = "++" -> applied
            [] ov.op = "+" -> IF there THEN refused ELSE applied
            [] OTHER -> IF there THEN applied ELSE refused

\* ++x.y=5 on a document without x.y was composed: x.y is 5.
C7_Witness ==
    /\ LoadEnded /\ done.load.err = "ok" /\ ~done.load.active
    /\ done.load.overrides = <<Override("++", <<"x", DOT, "y">>, IntNode(5))>>
    /\ ~PathExists(LoadDiskDoc, <<kx, ky>>)
    /\ GetPath(done.load.val.doc, <<kx, ky>>) = IntNode(5)

\* C10: the settings slot is None until a call of the facade succeeds;
\* when AppConfig.load or AppConfig.update has just succeeded the slot is
\* the value its load_config (for update: the load_config of update_config's
\* reload, which is what update_config returns) returned, whatever the slot
\* held before.
C10_SettingsSlot ==
    /\ counts.stored = 0 => settings = NoValue
    /\ (done.facade.fresh /\ done.facade.err = "ok") =>
          /\ done.load.err = "ok"
          /\ settings = done.load.val
          /\ settings = done.facade.val

\* A second successful call replaced an instantiated configuration by a
\* different value.
C10_Witness ==
    /\ done.facade.fresh /\ done.facade.err = "ok"
    /\ counts.stored = 2
    /\ done.facade.prev.tag = "object"
    /\ settings # done.facade.prev
    /\ settings = done.load.val

\* A thread is inside the with _lock block of a file-mutating operation.
Critical(t) ==
    /\ threads[t].op \in Locking
    /\ threads[t].pc \in {"read", "apply", "open", "dump", "mutate", "release"}

\* At most one thread is inside a with _lock block, and it holds the lock.
MutualExclusion ==
    \A t \in Threads :
        Critical(t) => /\ lock = t
                       /\ \A u \in Threads \ {t} : ~Critical(u)

\* A step that changes a file or a directory is taken by the thread that
\* holds the lock, inside its with _lock block.
MutationLocked ==
    (disk' # disk \/ dirs' # dirs) =>
        /\ lock \in Threads
        /\ Critical(lock)
        /\ threads'[lock] # threads[lock]
        /\ \A u \in Threads \ {lock} : threads'[u] = threads[u]

\* The thread's write_file has returned.
Wrote(t) == At(t, "write_file", "done") /\ threads[t].err = "ok"
\* The paths two update maps write do not lie on one another.
Apart(m, n) ==
    \A i \in 1..Len(m), j \in 1..Len(n) :
        /\ ~IsPrefix(Split(m[i].key), Split(n[j].key))
        /\ ~IsPrefix(Split(n[j].key), Split(m[i].key))
\* The document on disk holds every value of the update map.
Holds(path, m) ==
    /\ disk[path].exists
    /\ \A i \in 1..Len(m) :
          /\ PathExists(Load(disk[path].text), Split(m[i].key))
          /\ GetPath(Load(disk[path].text), Split(m[i].key)) = Plain(m[i].value)

NoLostUpdate ==
    \A t \in Threads, u \in Threads :
        (/\ t # u
         /\ Wrote(t) /\ Wrote(u)
         /\ threads[t].path = threads[u].path
         /\ Apart(threads[t].data, threads[u].data))
        => /\ Holds(threads[t].path, threads[t].data)
           /\ Holds(threads[t].path, threads[u].data)

\* C8: create_dir, remove_dir, rename_dir, copy_file and the YAML write
\* change the disk only inside their with _lock block, at most one thread
\* is inside such a block at a time, and when two concurrent write_file
\* calls on one file have both returned the document holds the updates of
\* both.
C8_Serialized == [](MutualExclusion /\ NoLostUpdate) /\ [][MutationLocked]_vars

\* Two threads have written x = 5 and a.b.c = 5 to the same file; the
\* document holds both values.
C8_Witness ==
    /\ Wrote("A") /\ Wrote("B")
    /\ threads["A"].data # threads["B"].data
    /\ Apart(threads["A"].data, threads["B"].data)
    /\ Holds(SettingsPath, threads["A"].data)
    /\ Holds(SettingsPath, threads["B"].data)

\* C9 as stated: no reader of the configuration file (read_file, load_config's
\* backup copy and document load) reads the file between a concurrent
\* write's open(path, "w") and the end of its dump.
C9_NoTornRead ==
    \A t \in Threads :
        threads[t].op \in {"read_file", "load_config"} => ~threads[t].torn

\* An update_config call is waiting for its reload: the frame above it is
\* the load_config it called.
Reloading(i) ==
    /\ i \in 1..(Len(stack) - 1)
    /\ stack[i].fn = "update_config" /\ stack[i].pc = "reload"

\* AppConfig.update has just returned.
UpdateEnded ==
    /\ done.facade.fresh /\ done.facade.fn = "AppConfig.update"
    /\ done.facade.err = "ok"

Lower(suffix) == IF suffix = ".YAML" THEN ".yaml" ELSE suffix

\* C12 as stated: get_file_extension gives the lowercase suffix without its
\* dot, so read_file and write_file dispatch a path by its suffix whatever
\* its letter case: a call is refused as unsupported exactly when the
\* lowercase suffix is not the YAML one.
C12_LowercaseExtension ==
    \A i \in 1..Len(calls) :
        LET c == calls[i]
        IN /\ get_file_extension(c.path) = RemovePrefixDot(Lower(Suffix(c.path)))
           /\ (c.err = "NotImplementedError") <=> (Lower(Suffix(c.path)) # ".yaml")

\* The first n values of a generator that starts in state st.
Stream(st, n) == [i \in 1..n |-> (st + i - 1) % Period]

\* C13: after set_seed(s), whatever the generators' states were before, the
\* values drawn from each seeded generator are the ones s alone fixes.
C13_SeedDeterminism ==
    drawn.called =>
       \A g \in Generators :
          drawn.out[g] = Stream(Seeded(drawn.seed), Len(drawn.out[g]))

\* The steps of load_config after which a frame stands at pc.
Succ(pc) ==
    CASE pc = "ensure" -> {"backup"}
      [] pc = "backup" -> {"check"}
      [] pc = "check" -> {"load_raw", "initialize"}
      [] pc = "initialize" -> {"compose"}
      [] pc = "compose" -> {"instantiate"}
      [] pc = "instantiate" -> {"construct"}
      [] pc = "construct" -> {"constructed"}
      [] OTHER -> {}

PastEnsure == {"backup", "check", "load_raw", "initialize", "compose",
               "instantiate", "construct", "constructed"}
PastBackup == PastEnsure \ {"backup"}
BeforeCompose == {"ensure", "backup", "check", "load_raw", "initialize", "compose"}

\* Where a load_config call stands tells what it has done: past the first
\* statement the resolver is registered, past the copy the backup holds a file
\* of the configuration's name (the very file, until a constructor runs), a
\* root of its own is there while it composes, and it holds no composed
\* configuration before.
StepsInOrder ==
    \A i \in 1..Len(stack) :
       stack[i].fn = "load_config" =>
          /\ stack[i].pc \in PastEnsure =>
                resolver_registered /\ "path_config" \in Names(resolvers)
          /\ stack[i].pc \in PastBackup =>
                /\ backup[ConfigPath(stack[i].dir, stack[i].file).name].exists
                /\ stack[i].pc \notin {"construct", "constructed"} =>
                      backup[ConfigPath(stack[i].dir, stack[i].file).name]
                         = disk[ConfigPath(stack[i].dir, stack[i].file)]
          /\ stack[i].pc \in BeforeCompose => stack[i].cfg = NoneNode
          /\ stack[i].pc = "compose" => global_hydra /\ ~stack[i].active
          /\ stack[i].pc = "load_raw" => global_hydra /\ stack[i].active

\* Every step of a load_config call leads to the next one of the code, and
\* the registry, the backup and the root change in their step only.
StepFollows ==
    /\ \A i \in 1..Len(stack) :
          (/\ i <= Len(stack')
           /\ stack[i].fn = "load_config"
           /\ stack'[i].pc # stack[i].pc) => stack'[i].pc \in Succ(stack[i].pc)
    /\ resolvers' # resolvers => stack # <<>> /\ Top.pc = "ensure"
    /\ backup' # backup => Running("load_config", "backup")
    /\ (stack # <<>> /\ global_hydra' # global_hydra) =>
          \/ Running("load_config", "initialize")
          \/ Running("load_config", "compose")

\* The copy fails: the call and its callers end with the error, and the
\* root, the backup, the slot and the count of its assignments stay.
BackupFailureAborts ==
    (/\ Running("load_config", "backup")
     /\ ~disk[ConfigPath(Top.dir, Top.file)].exists
     /\ stack' # stack) =>
        /\ stack' = <<>>
        /\ done'.load.fresh /\ done'.load.err = "FileNotFoundError"
        /\ done'.facade.fresh
        /\ done'.facade.err \in {"FileNotFoundError", "InstantiationException"}
        /\ Top.cfg = NoneNode /\ ~Top.active
        /\ UNCHANGED <<global_hydra, backup, settings, disk>>
        /\ counts'.stored = counts.stored

\* C14: load_config registers the resolver, copies the file to the backup
\* directory, checks the composition context, then composes and
\* instantiates (or loads raw), in this order; a failure of the copy ends
\* the call before the context check, with no root established, nothing
\* composed or instantiated, and the settings slot not replaced.
C14_StepOrder == [](StepsInOrder) /\ [][StepFollows /\ BackupFailureAborts]_vars

\* A second call fails in its backup copy: the slot holds what the first
\* call stored.
C14_Witness ==
    /\ stack = <<>>
    /\ done.load.fresh /\ done.load.err = "FileNotFoundError"
    /\ done.facade.fresh /\ done.facade.fn = "AppConfig.load"
    /\ settings # NoValue
    /\ counts.stored = 1 /\ counts.calls = 2
    /\ ~global_hydra

\* A step ends the facade's call with an exception.
CallRaises ==
    /\ stack # <<>> /\ stack' = <<>>
    /\ done'.facade.fresh /\ done'.facade.err # "ok"

\* The slot changes in the assignment that ends a call that returned, and
\* in no other step; a call that raises leaves it.
SlotKeptOnFailure ==
    /\ settings' # settings =>
          stack # <<>> /\ Top.pc = "store" /\ done'.facade.err = "ok"
    /\ CallRaises => settings' = settings

\* update_config raises in write_file: file and slot are as before.
WriteFailureKeepsFile ==
    (Running("update_config", "write") /\ CallRaises) =>
        /\ disk' = disk
        /\ settings' = settings

\* update_config raises in its reload: the file stays as written, the slot
\* as before.
ReloadFailureKeepsUpdate ==
    (/\ Len(stack) >= 3
     /\ stack[2].fn = "update_config" /\ stack[2].pc = "reload"
     /\ CallRaises) =>
        /\ disk' = disk
        /\ settings' = settings
        /\ disk[ConfigPath(stack[2].dir, stack[2].file)].exists
        /\ NoNestedKeys(stack[2].updates) =>
              UpdatesReadBack(stack[2].updates,
                  Load(disk[ConfigPath(stack[2].dir, stack[2].file)].text))

\* C15: when AppConfig.load or AppConfig.update raises, the settings slot
\* keeps the value it had before the call; when update fails in its write
\* step the file on disk and the slot are unchanged, and when it fails in
\* its reload the file stays updated and the slot keeps the old value.
C15_FailureKeepsState ==
    [][SlotKeptOnFailure /\ WriteFailureKeepsFile /\ ReloadFailureKeepsUpdate]_vars

\* A root is active only while the innermost load_config composes.
RootWhileComposing ==
    /\ global_hydra => Running("load_config", "compose")
    /\ stack = <<>> => ~global_hydra

\* No load_config call finds a root at its context check, none loads raw.
FullPath ==
    \A i \in 1..Len(stack) :
       stack[i].fn = "load_config" =>
          ~stack[i].active /\ stack[i].pc # "load_raw"

\* A load_config call that has just returned, from the facade, from
\* update_config or from a constructor, returned an instantiated
\* configuration that holds the value of each of its overrides.
ReturnsComposed ==
    LoadEnded =>
       /\ ~done.load.active
       /\ done.load.err = "ok" =>
             /\ done.load.val.tag = "object"
             /\ \A i \in 1..Len(done.load.overrides) :
                   LET keys == Split(done.load.overrides[i].key)
                   IN /\ PathExists(done.load.val.doc, keys)
                      /\ GetPath(done.load.val.doc, keys)
                            = done.load.overrides[i].value

\* The step that composes ends without a root, whether compose returns or
\* raises; instantiate runs in later steps.
ReleasedAfterCompose ==
    Running("load_config", "compose") => ~global_hydra'

\* C16: the root load_config establishes is active only while the document
\* is composed and is released before instantiation and before the call
\* returns, also when composition fails; so where the application
\* establishes no root of its own, no root is active between two calls,
\* every load_config takes the compose-and-instantiate path with its
\* overrides applied, and one called by a constructor during instantiation
\* is not degraded.
C16_RootReleased ==
    /\ [](RootWhileComposing /\ FullPath /\ ReturnsComposed)
    /\ [][ReleasedAfterCompose]_vars

\* In the second call of the process a constructor's load_config returned
\* an instantiated configuration.
C16_Witness ==
    /\ LoadEnded /\ done.load.nested /\ done.load.err = "ok"
    /\ done.load.val.tag = "object"
    /\ counts.calls = 2 /\ counts.stored = 1
    /\ ~global_hydra

\* The thread that holds the lock is inside its with block: it is not at a
\* with _lock statement again, and it does not hold the lock once its call
\* has ended, by a return or by an exception.
NoNestedAcquire ==
    \A t \in Threads :
       lock = t => /\ threads[t].pc \notin {"acquire", "done", "idle", "exists"}
                   /\ threads[t].op \in Locking

\* Every call that has begun ends.
AllComplete ==
    \A t \in Threads : (threads[t].op # "idle") ~> (threads[t].pc = "done")

\* C17: no operation calls, while it holds the lock, an operation that
\* acquires it, and the lock is released on every exit of the with block,
\* exceptions included; so under a fair scheduler concurrent callers of
\* create_dir, remove_dir, rename_dir, rename_dir_if_exists, copy_file and
\* write_file all complete.
C17_DeadlockFree == [](NoNestedAcquire) /\ AllComplete

\* Two locking calls have ended, one of them by an exception raised inside
\* its with block, and the lock is free.
C17_Witness ==
    /\ lock = Free
    /\ \A t \in Threads : threads[t].pc = "done"
    /\ \E t, u \in Threads :
          /\ t # u
          /\ threads[t].op \in Locking /\ threads[t].err \notin {"ok", "none"}
          /\ threads[u].op \in Locking /\ threads[u].err = "ok"

====
